---- MODULE Spec2Model ----
(***************************************************************************)
(* Document vectorization pipeline of vectors-gateway: DocumentProcessor   *)
(* (ingest / delete), QdrantService (vector store adapter), the metadata   *)
(* table functions and LiteLLMClient.getEmbeddings.                        *)
(*                                                                         *)
(* Every await of a handler is a step boundary: one action per awaited     *)
(* collaborator call, together with the synchronous code that follows it.  *)
(* Timestamps (createdAt, updatedAt, vectorizedAt) and tracing spans are   *)
(* not part of the state.                                                  *)
(***************************************************************************)
EXTENDS Integers, Sequences, FiniteSets, TLC

(* ------------------------------ bounds -------------------------------- *)
\* total number of operations invoked in one behaviour
MaxOps == 2
\* largest number of chunks performSemanticChunking returns for one content
MaxChunks == 2

(* --------------------------- program constants ------------------------ *)
\* id: documentId * 1000 + index
IdStride == 1000
\* limit !== undefined ? Number(limit) : 10
DefaultLimit == 10
\* score_threshold !== undefined ? Number(score_threshold) : 0.5, in percent
DefaultScoreThreshold == 50

(* ------------------------------ inputs -------------------------------- *)
Procs == {1, 2}
\* identity triples <<userId, knowledgeBaseId, documentId>> of the callers:
\* one key, the same key under another user, the same documentId in another
\* knowledge base
Triples == {<<1, 1, 1>>, <<2, 1, 1>>, <<1, 2, 1>>}
\* the triples of concurrent callers: one key, and the same documentId in
\* another knowledge base
ConcTriples == {<<1, 1, 1>>, <<1, 2, 1>>}
\* the triples of the read path: two documents of one knowledge base of one
\* user, and another user's document in a knowledge base of the same id
ReadTriples == {<<1, 1, 1>>, <<1, 1, 2>>, <<2, 1, 3>>}
\* the document text; the chunking of one text varies from run to run (the
\* fallback chunker replaces semantic chunking whenever an embedding call fails)
Contents == {1}
\* searchSimilarDocuments' documentId parameter left undefined
NoDoc == 0
\* a field an error message does not carry; wrapped: the message is prefixed
\* with "Failed to process document: "
Absent == -1
\* the Error a handler throws or logs: the template of its message and the
\* values interpolated into it
NoErr == [kind |-> "none", expected |-> Absent, got |-> Absent,
          index |-> Absent, typeOf |-> "", wrapped |-> FALSE]

VARIABLES
  points,   \* the Qdrant collection: set of points, at most one per id
  meta,     \* rows of document_vector_metadata
  pc,       \* per handler invocation: the await it is suspended at
  op,       \* per handler invocation: its arguments
  chunks,   \* processDocument's local `chunks`
  embs,     \* processDocument's local `embeddings`
  did,      \* collaborator calls of this invocation that completed
  fan,      \* getEmbeddings: settled value of each embeddingPromises[i]
  order,    \* getEmbeddings: order in which the requests completed
  nops,     \* number of invocations so far
  last,     \* the invocation that completed most recently, with its outcome
  prev,     \* summary of the invocation that completed before `last`
  calc      \* a function evaluated on its own: its inputs and its result

\* the state of the stores and of the handlers
storeVars == <<points, meta, pc, op, chunks, embs, did, fan, order, nops, last, prev>>

vars == <<storeVars, calc>>

(* ------------------------- pure program functions --------------------- *)
Min(a, b) == IF a < b THEN a ELSE b

\* text of the chunk at chunkIndex i of a content
ChunkText(content, i) == content * 10 + i

\* what the embedding provider answers for one text
Embedding(text) == [isArray |-> TRUE, v |-> <<text>>]
\* [] and undefined
EmptyEmbedding == [isArray |-> TRUE, v |-> <<>>]
NotAnArray == [isArray |-> FALSE, v |-> <<>>]
TypeOf(e) == IF e.isArray THEN "object" ELSE "undefined"

PointId(documentId, index) == documentId * IdStride + index

\* semanticChunks.map((chunkContent, index) => ({...})), 1-based position i
\* holds chunkIndex i - 1
MakeChunks(o, n) ==
  [i \in 1..n |->
     [id |-> PointId(o.documentId, i - 1),
      content |-> ChunkText(o.content, i - 1),
      documentId |-> o.documentId,
      knowledgeBaseId |-> o.knowledgeBaseId,
      userId |-> o.userId,
      chunkIndex |-> i - 1,
      totalChunks |-> n,
      originalContent |-> o.content]]

ValidEmbedding(e) == e.isArray /\ Len(e.v) # 0

\* the count check with the two counts interchanged in the message
ValidateEmbeddings_SwappedCounts(cs, es) ==
  IF Len(es) # Len(cs)
  THEN [NoErr EXCEPT !.kind = "mismatch", !.expected = Len(es), !.got = Len(cs)]
  ELSE IF \E i \in 1..Len(es) : ~ValidEmbedding(es[i])
  THEN LET i == CHOOSE i \in 1..Len(es) :
                  /\ ~ValidEmbedding(es[i])
                  /\ \A j \in 1..(i - 1) : ValidEmbedding(es[j])
       IN [NoErr EXCEPT !.kind = "invalid", !.index = i - 1,
                        !.typeOf = TypeOf(es[i])]
  ELSE NoErr

\* the two validations after `await getEmbeddings(chunkTexts)`
ValidateEmbeddings(cs, es) ==
  IF Len(es) # Len(cs)
  THEN [NoErr EXCEPT !.kind = "mismatch", !.expected = Len(cs), !.got = Len(es)]
  ELSE IF \E i \in 1..Len(es) : ~ValidEmbedding(es[i])
  THEN LET i == CHOOSE i \in 1..Len(es) :
                  /\ ~ValidEmbedding(es[i])
                  /\ \A j \in 1..(i - 1) : ValidEmbedding(es[j])
       IN [NoErr EXCEPT !.kind = "invalid", !.index = i - 1,
                        !.typeOf = TypeOf(es[i])]
  ELSE NoErr

\* vectorizationResult.chunks.map((chunk, index) => point)
BuildPoints(cs, es) ==
  {[id |-> cs[i].id,
    vector |-> es[i].v,
    documentId |-> cs[i].documentId,
    knowledgeBaseId |-> cs[i].knowledgeBaseId,
    userId |-> cs[i].userId,
    chunkIndex |-> cs[i].chunkIndex,
    totalChunks |-> cs[i].totalChunks,
    content |-> cs[i].content,
    originalContent |-> cs[i].originalContent] : i \in 1..Len(cs)}

(* ------------------------------ VectorStore --------------------------- *)
\* a filter is a conjunction of exact-match conditions <<key, value>>
Matches(pt, filter) == \A c \in filter : pt[c[1]] = c[2]

QdrantUpsert(pts, new) ==
  {pt \in pts : \A n \in new : n.id # pt.id} \cup new

QdrantDelete(pts, filter) == {pt \in pts : ~Matches(pt, filter)}

\* similarity of a query vector and a stored vector, in percent
Score(q, v) ==
  IF q = v THEN 100
  ELSE IF Len(q) = 1 /\ Len(v) = 1 /\ q[1] \div 10 = v[1] \div 10 THEN 60
  ELSE 20

\* the result sets a filtered, thresholded, limited search may return
QdrantSearch(pts, q, filter, limit, thr) ==
  LET eligible == {pt \in pts : Matches(pt, filter) /\ Score(q, pt.vector) >= thr}
  IN {R \in SUBSET eligible :
        /\ Cardinality(R) = Min(limit, Cardinality(eligible))
        /\ \A r \in R : \A s \in eligible \ R :
             Score(q, r.vector) >= Score(q, s.vector)}

DeleteFilter(documentId, knowledgeBaseId) ==
  {<<"documentId", documentId>>, <<"knowledgeBaseId", knowledgeBaseId>>}

\* the search filter without its userId condition
SearchFilter_NoUser(userId, knowledgeBaseId, documentId) ==
  {<<"knowledgeBaseId", knowledgeBaseId>>}
    \cup (IF documentId # NoDoc THEN {<<"documentId", documentId>>} ELSE {})

SearchFilter(userId, knowledgeBaseId, documentId) ==
  {<<"userId", userId>>, <<"knowledgeBaseId", knowledgeBaseId>>}
    \cup (IF documentId # NoDoc THEN {<<"documentId", documentId>>} ELSE {})

(* ------------------------------ MetadataStore ------------------------- *)
\* create-or-reset on the unique key (documentId, knowledgeBaseId)
upsertDocumentVectorMetadata(m, data) ==
  {r \in m : ~(r.documentId = data.documentId
               /\ r.knowledgeBaseId = data.knowledgeBaseId)} \cup {data}

\* UPDATE ... SET isVectorized, vectorCount WHERE documentId = $1
updateDocumentVectorMetadata(m, documentId, isVectorized, vectorCount) ==
  {IF r.documentId = documentId
   THEN [r EXCEPT !.isVectorized = isVectorized, !.vectorCount = vectorCount]
   ELSE r : r \in m}

markDocumentAsVectorized(m, documentId, vectorCount) ==
  updateDocumentVectorMetadata(m, documentId, TRUE, vectorCount)

\* DELETE ... WHERE documentId = $1
deleteDocumentVectorMetadata(m, documentId) ==
  {r \in m : r.documentId # documentId}

(* ------------------------------ state helpers ------------------------- *)
NoOp == [kind |-> "none", userId |-> 0, knowledgeBaseId |-> 0, documentId |-> 0,
         content |-> 0, q |-> <<>>, limit |-> 0, thr |-> 0]

\* the points, and the rows, of one (documentId, knowledgeBaseId) key
PointsIn(pts, documentId, knowledgeBaseId) ==
  {pt \in pts : pt.documentId = documentId
                /\ pt.knowledgeBaseId = knowledgeBaseId}

RowsIn(m, documentId, knowledgeBaseId) ==
  {r \in m : r.documentId = documentId
             /\ r.knowledgeBaseId = knowledgeBaseId}

InFlight == {p \in Procs : pc[p] # "idle"}

Budget == nops < MaxOps

Entry(p, res, err, matches) ==
  [kind |-> op[p].kind,
   userId |-> op[p].userId,
   knowledgeBaseId |-> op[p].knowledgeBaseId,
   documentId |-> op[p].documentId,
   content |-> op[p].content,
   n |-> Len(chunks[p]),
   res |-> res,
   err |-> err,
   matches |-> matches]

NoEntry ==
  [kind |-> "none", userId |-> 0, knowledgeBaseId |-> 0, documentId |-> 0,
   content |-> 0, n |-> 0, res |-> "none", err |-> NoErr, matches |-> {}]

\* what is kept of an invocation once a later one has completed
Summary(e) == [e EXCEPT !.err = NoErr, !.matches = {}]

\* the handler invocation returns or throws: its locals are dropped
Finish(p, res, err, matches) ==
  /\ last' = Entry(p, res, err, matches)
  /\ prev' = Summary(last)
  /\ nops' = nops
  /\ pc' = [pc EXCEPT ![p] = "idle"]
  /\ op' = [op EXCEPT ![p] = NoOp]
  /\ chunks' = [chunks EXCEPT ![p] = <<>>]
  /\ embs' = [embs EXCEPT ![p] = <<>>]
  /\ did' = [did EXCEPT ![p] = {}]
  /\ fan' = [fan EXCEPT ![p] = <<>>]
  /\ order' = [order EXCEPT ![p] = <<>>]
  /\ calc' = calc

Goto(p, label, d) ==
  /\ pc' = [pc EXCEPT ![p] = label]
  /\ did' = [did EXCEPT ![p] = d]
  /\ calc' = calc

StoresInit ==
  /\ points = {}
  /\ meta = {}
  /\ pc = [p \in Procs |-> "idle"]
  /\ op = [p \in Procs |-> NoOp]
  /\ chunks = [p \in Procs |-> <<>>]
  /\ embs = [p \in Procs |-> <<>>]
  /\ did = [p \in Procs |-> {}]
  /\ fan = [p \in Procs |-> <<>>]
  /\ order = [p \in Procs |-> <<>>]
  /\ nops = 0
  /\ last = NoEntry
  /\ prev = NoEntry

Init == StoresInit /\ calc = <<>>


(* ------------------------------ EmbeddingGateway ---------------------- *)
\* embeddings index-aligned to the chunks
AlignedEmbeddings(cs) == [i \in 1..Len(cs) |-> Embedding(cs[i].content)]

\* the lists the embedding collaborator may hand back to processDocument:
\* the aligned one, one vector short, one vector long, or one entry that is
\* an empty array or not an array
EmbeddingReturns(cs) ==
  LET ok == AlignedEmbeddings(cs)
  IN {ok, Append(ok, Embedding(0))}
       \cup (IF Len(cs) > 0 THEN {SubSeq(ok, 1, Len(cs) - 1)} ELSE {})
       \cup {[ok EXCEPT ![i] = bad] :
               i \in 1..Len(cs), bad \in {EmptyEmbedding, NotAnArray}}

Pending == [isArray |-> FALSE, v |-> <<0>>]

\* the values collected in the order in which the requests completed
PromiseAll_CompletionOrder(values, ord) ==
  [k \in 1..Len(ord) |-> values[ord[k]]]

\* await Promise.all(embeddingPromises): the values in promise order
PromiseAll(values, ord) == values

EmbeddingError == [NoErr EXCEPT !.kind = "embedding"]
StoreError == [NoErr EXCEPT !.kind = "store"]
MetadataError == [NoErr EXCEPT !.kind = "metadata"]

\* catch (error) { throw new Error(`Failed to process document: ${...}`) }
WrapError(e) == [e EXCEPT !.wrapped = TRUE]

\* where performSemanticChunking's try block can throw: the input check,
\* sentence splitting, windowing, the embedding call for the window texts,
\* boundary detection, grouping
ChunkingFaults == {"empty", "split", "window", "embed", "boundary", "group"}

\* the chunk counts performSemanticChunking can return: the semantic path
\* returns at least one chunk, the fallback chunker may return none
ChunkCounts(fault) == IF fault = "none" THEN 1..MaxChunks ELSE 0..MaxChunks

\* a chunking whose failure is not caught
IngestChunk_Propagates(p) ==
  /\ pc[p] = "chunk"
  /\ \E fault \in ChunkingFaults \cup {"none"} :
       IF fault = "none"
       THEN /\ \E n \in ChunkCounts(fault) :
                 chunks' = [chunks EXCEPT ![p] = MakeChunks(op[p], n)]
            /\ Goto(p, "embed", did[p] \cup {"chunk"})
            /\ UNCHANGED <<op, embs, fan, order, nops, last, prev>>
       ELSE Finish(p, "error", WrapError([NoErr EXCEPT !.kind = "chunking"]), {})
  /\ UNCHANGED <<points, meta>>

(* ------------------------------ ingest -------------------------------- *)
\* an ingest that waits while another ingest of its key is in flight
StartIngest_Locked(p, t, c) ==
  /\ pc[p] = "idle"
  /\ Budget
  /\ \A q \in Procs :
       \/ pc[q] = "idle"
       \/ op[q].kind # "ingest"
       \/ op[q].documentId # t[3]
       \/ op[q].knowledgeBaseId # t[2]
  /\ op' = [op EXCEPT ![p] = [NoOp EXCEPT !.kind = "ingest", !.userId = t[1],
                                !.knowledgeBaseId = t[2], !.documentId = t[3],
                                !.content = c]]
  /\ pc' = [pc EXCEPT ![p] = "reset"]
  /\ nops' = nops + 1
  /\ UNCHANGED <<points, meta, chunks, embs, did, fan, order, last, prev, calc>>

StartIngest(p, t, c) ==
  /\ pc[p] = "idle"
  /\ Budget
  /\ op' = [op EXCEPT ![p] = [NoOp EXCEPT !.kind = "ingest", !.userId = t[1],
                                !.knowledgeBaseId = t[2], !.documentId = t[3],
                                !.content = c]]
  /\ pc' = [pc EXCEPT ![p] = "reset"]
  /\ nops' = nops + 1
  /\ UNCHANGED <<points, meta, chunks, embs, did, fan, order, last, prev, calc>>

\* a first step that creates the row when the key has none and leaves an
\* existing row as it is
IngestReset_CreateOnly(p) ==
  /\ pc[p] = "reset"
  /\ \/ /\ meta' = IF RowsIn(meta, op[p].documentId, op[p].knowledgeBaseId) # {}
                   THEN meta
                   ELSE meta \cup {[documentId |-> op[p].documentId,
                                    knowledgeBaseId |-> op[p].knowledgeBaseId,
                                    userId |-> op[p].userId,
                                    vectorCount |-> 0,
                                    isVectorized |-> FALSE]}
        /\ Goto(p, "deleteOld", did[p] \cup {"reset"})
        /\ UNCHANGED <<points, op, chunks, embs, fan, order, nops, last, prev>>
     \/ /\ Finish(p, "error", WrapError(MetadataError), {})
        /\ UNCHANGED <<points, meta>>

\* await upsertDocumentVectorMetadata({..., vectorCount: 0, isVectorized: false})
IngestReset(p) ==
  /\ pc[p] = "reset"
  /\ \/ /\ meta' = upsertDocumentVectorMetadata(meta,
                     [documentId |-> op[p].documentId,
                      knowledgeBaseId |-> op[p].knowledgeBaseId,
                      userId |-> op[p].userId,
                      vectorCount |-> 0,
                      isVectorized |-> FALSE])
        /\ Goto(p, "deleteOld", did[p] \cup {"reset"})
        /\ UNCHANGED <<points, op, chunks, embs, fan, order, nops, last, prev>>
     \/ /\ Finish(p, "error", WrapError(MetadataError), {})
        /\ UNCHANGED <<points, meta>>

\* a delete of the old vectors whose failure fails the ingest
IngestDeleteOld_Strict(p) ==
  /\ pc[p] = "deleteOld"
  /\ \/ /\ points' = QdrantDelete(points,
                       DeleteFilter(op[p].documentId, op[p].knowledgeBaseId))
        /\ Goto(p, "chunk", did[p] \cup {"delete"})
        /\ UNCHANGED <<meta, op, chunks, embs, fan, order, nops, last, prev>>
     \/ /\ Finish(p, "error", WrapError(StoreError), {})
        /\ UNCHANGED <<points, meta>>

\* try { await qdrantService.deleteDocumentVectors(...) } catch { /* ok */ }
IngestDeleteOld(p) ==
  /\ pc[p] = "deleteOld"
  /\ \/ /\ points' = QdrantDelete(points,
                       DeleteFilter(op[p].documentId, op[p].knowledgeBaseId))
        /\ Goto(p, "chunk", did[p] \cup {"delete"})
     \/ /\ points' = points
        /\ Goto(p, "chunk", did[p])
  /\ UNCHANGED <<meta, op, chunks, embs, fan, order, nops, last, prev>>

\* await performSemanticChunking(content, 1, 90): a throw inside its try
\* block is caught and answered by fallbackToSimpleChunking(content)
IngestChunk(p) ==
  /\ pc[p] = "chunk"
  /\ \E fault \in ChunkingFaults \cup {"none"} :
       /\ \E n \in ChunkCounts(fault) :
            chunks' = [chunks EXCEPT ![p] = MakeChunks(op[p], n)]
       /\ Goto(p, "embed", did[p] \cup {"chunk"}
                             \cup (IF fault = "none" THEN {} ELSE {"fallback"}))
  /\ UNCHANGED <<points, meta, op, embs, fan, order, nops, last, prev>>

\* the code from the return of getEmbeddings up to the call of
\* storeDocumentVectors
AfterEmbeddings(p, es) ==
  LET e == ValidateEmbeddings(chunks[p], es)
  IN IF e = NoErr
     THEN /\ embs' = [embs EXCEPT ![p] = es]
          /\ Goto(p, "store", did[p] \cup {"embed"})
          /\ UNCHANGED <<op, chunks, nops, last, prev>>
     ELSE Finish(p, "error", WrapError(e), {})

\* await litellmClient.getEmbeddings(chunkTexts), the gateway taken as a
\* collaborator, then both validations
IngestEmbed(p) ==
  /\ pc[p] = "embed"
  /\ \/ /\ \E es \in EmbeddingReturns(chunks[p]) : AfterEmbeddings(p, es)
        /\ UNCHANGED <<points, meta>>
        /\ pc'[p] # "idle" => UNCHANGED <<fan, order>>
     \/ /\ Finish(p, "error", WrapError(EmbeddingError), {})
        /\ UNCHANGED <<points, meta>>

\* a store step that marks the document as vectorized together with the upsert
IngestStore_MarkFirst(p) ==
  /\ pc[p] = "store"
  /\ \/ /\ points' = QdrantUpsert(points, BuildPoints(chunks[p], embs[p]))
        /\ meta' = markDocumentAsVectorized(meta, op[p].documentId, Len(chunks[p]))
        /\ Goto(p, "mark", did[p] \cup {"store"})
        /\ UNCHANGED <<op, chunks, embs, fan, order, nops, last, prev>>
     \/ /\ Finish(p, "error", WrapError(StoreError), {})
        /\ UNCHANGED <<points, meta>>

\* await qdrantService.storeDocumentVectors(vectorizationResult)
IngestStore(p) ==
  /\ pc[p] = "store"
  /\ \/ /\ points' = QdrantUpsert(points, BuildPoints(chunks[p], embs[p]))
        /\ Goto(p, "mark", did[p] \cup {"store"})
        /\ UNCHANGED <<meta, op, chunks, embs, fan, order, nops, last, prev>>
     \/ /\ Finish(p, "error", WrapError(StoreError), {})
        /\ UNCHANGED <<points, meta>>

\* await markDocumentAsVectorized(documentId, chunks.length); return
IngestMark(p) ==
  /\ pc[p] = "mark"
  /\ \/ /\ meta' = markDocumentAsVectorized(meta, op[p].documentId, Len(chunks[p]))
        /\ Finish(p, "ok", NoErr, {})
     \/ /\ Finish(p, "error", WrapError(MetadataError), {})
        /\ meta' = meta
  /\ UNCHANGED points

\* the process stops between storeDocumentVectors and markDocumentAsVectorized
CrashBeforeMark(p) ==
  /\ pc[p] = "mark"
  /\ Finish(p, "crashed", NoErr, {})
  /\ UNCHANGED <<points, meta>>

(* ------------------ getEmbeddings: one request per text --------------- *)
\* texts.map(async (text, index) => fetch(...)): every request is in flight
FanDispatch(p) ==
  /\ pc[p] = "embed"
  /\ fan' = [fan EXCEPT ![p] = [i \in 1..Len(chunks[p]) |-> Pending]]
  /\ order' = [order EXCEPT ![p] = <<>>]
  /\ pc' = [pc EXCEPT ![p] = "embedWait"]
  /\ UNCHANGED <<points, meta, op, chunks, embs, did, nops, last, prev, calc>>

\* request i answers ok: embeddingPromises[i] fulfils with data.data[0].embedding,
\* the embedding of its text or, from a faulty provider, an empty array
FanResolve(p, i) ==
  /\ pc[p] = "embedWait"
  /\ i \in 1..Len(fan[p])
  /\ fan[p][i] = Pending
  /\ \E e \in {Embedding(chunks[p][i].content), EmptyEmbedding} :
       fan' = [fan EXCEPT ![p][i] = e]
  /\ order' = [order EXCEPT ![p] = Append(@, i)]
  /\ UNCHANGED <<points, meta, pc, op, chunks, embs, did, nops, last, prev, calc>>

\* request i answers !response.ok: Promise.all rejects, getEmbeddings throws
FanReject(p, i) ==
  /\ pc[p] = "embedWait"
  /\ i \in 1..Len(fan[p])
  /\ fan[p][i] = Pending
  /\ Finish(p, "error", WrapError(EmbeddingError), {})
  /\ UNCHANGED <<points, meta>>

\* every promise fulfilled: Promise.all resolves, getEmbeddings returns
FanJoin(p) ==
  /\ pc[p] = "embedWait"
  /\ \A i \in 1..Len(fan[p]) : fan[p][i] # Pending
  /\ AfterEmbeddings(p, PromiseAll(fan[p], order[p]))
  /\ pc'[p] # "idle" => UNCHANGED <<fan, order>>
  /\ UNCHANGED <<points, meta>>

(* ------------------------------ delete -------------------------------- *)
StartDelete(p, t) ==
  /\ pc[p] = "idle"
  /\ Budget
  /\ op' = [op EXCEPT ![p] = [NoOp EXCEPT !.kind = "delete", !.userId = t[1],
                                !.knowledgeBaseId = t[2], !.documentId = t[3]]]
  /\ pc' = [pc EXCEPT ![p] = "delVectors"]
  /\ nops' = nops + 1
  /\ UNCHANGED <<points, meta, chunks, embs, did, fan, order, last, prev, calc>>

\* a vector delete whose failure is swallowed, as in ingest
DeleteVectors_Swallow(p) ==
  /\ pc[p] = "delVectors"
  /\ \/ /\ points' = QdrantDelete(points,
                       DeleteFilter(op[p].documentId, op[p].knowledgeBaseId))
        /\ Goto(p, "delMeta", did[p] \cup {"delete"})
     \/ /\ points' = points
        /\ Goto(p, "delMeta", did[p])
  /\ UNCHANGED <<meta, op, chunks, embs, fan, order, nops, last, prev>>

\* a vector delete after whose failure the metadata row is deleted all the same
DeleteVectors_ThenMeta(p) ==
  /\ pc[p] = "delVectors"
  /\ \/ /\ points' = QdrantDelete(points,
                       DeleteFilter(op[p].documentId, op[p].knowledgeBaseId))
        /\ Goto(p, "delMeta", did[p] \cup {"delete"})
        /\ UNCHANGED <<meta, op, chunks, embs, fan, order, nops, last, prev>>
     \/ /\ Finish(p, "false", StoreError, {})
        /\ meta' = deleteDocumentVectorMetadata(meta, op[p].documentId)
        /\ UNCHANGED points

\* await qdrantService.deleteDocumentVectors(documentId, knowledgeBaseId)
DeleteVectors(p) ==
  /\ pc[p] = "delVectors"
  /\ \/ /\ points' = QdrantDelete(points,
                       DeleteFilter(op[p].documentId, op[p].knowledgeBaseId))
        /\ Goto(p, "delMeta", did[p] \cup {"delete"})
        /\ UNCHANGED <<meta, op, chunks, embs, fan, order, nops, last, prev>>
     \/ /\ Finish(p, "false", StoreError, {})
        /\ UNCHANGED <<points, meta>>

\* a metadata delete whose failure leaves deleteDocumentVectors as a throw
DeleteMeta_Rethrow(p) ==
  /\ pc[p] = "delMeta"
  /\ \/ /\ meta' = deleteDocumentVectorMetadata(meta, op[p].documentId)
        /\ Finish(p, "true", NoErr, {})
     \/ /\ Finish(p, "error", MetadataError, {})
        /\ meta' = meta
  /\ UNCHANGED points

\* await deleteDocumentVectorMetadata(documentId); return true
DeleteMeta(p) ==
  /\ pc[p] = "delMeta"
  /\ \/ /\ meta' = deleteDocumentVectorMetadata(meta, op[p].documentId)
        /\ Finish(p, "true", NoErr, {})
     \/ /\ Finish(p, "false", MetadataError, {})
        /\ meta' = meta
  /\ UNCHANGED points

(* ------------------------------ search -------------------------------- *)
StartSearch(p, userId, knowledgeBaseId, documentId, q, limit, thr) ==
  /\ pc[p] = "idle"
  /\ Budget
  /\ op' = [op EXCEPT ![p] = [NoOp EXCEPT !.kind = "search", !.userId = userId,
                                !.knowledgeBaseId = knowledgeBaseId,
                                !.documentId = documentId,
                                !.q = q, !.limit = limit, !.thr = thr]]
  /\ pc' = [pc EXCEPT ![p] = "search"]
  /\ nops' = nops + 1
  /\ UNCHANGED <<points, meta, chunks, embs, did, fan, order, last, prev, calc>>

\* await qdrantCient.search(collectionName, {vector, filter, limit, ...})
SearchSimilarDocuments(p) ==
  /\ pc[p] = "search"
  /\ \/ \E R \in QdrantSearch(points, op[p].q,
                    SearchFilter(op[p].userId, op[p].knowledgeBaseId,
                                 op[p].documentId),
                    op[p].limit, op[p].thr) :
          Finish(p, "ok", NoErr, R)
     \/ Finish(p, "error", StoreError, {})
  /\ UNCHANGED <<points, meta>>

(* ------------------------------ specifications ------------------------ *)
\* an embedded query: a stored chunk's text, or a text no document holds
QueryVectors == {Embedding(ChunkText(1, 0)).v, Embedding(ChunkText(2, 0)).v}

Start(p, T) ==
  \/ \E t \in T, c \in Contents : StartIngest(p, t, c)
  \/ \E t \in T : StartDelete(p, t)

StartRead(p, T) ==
  \E t \in T, withDoc \in BOOLEAN, q \in QueryVectors,
     limit \in {1, DefaultLimit}, thr \in {0, DefaultScoreThreshold} :
    StartSearch(p, t[1], t[2], IF withDoc THEN t[3] ELSE NoDoc, q, limit, thr)

Step(p) ==
  \/ IngestReset(p)
  \/ IngestDeleteOld(p)
  \/ IngestChunk(p)
  \/ IngestStore(p)
  \/ IngestMark(p)
  \/ CrashBeforeMark(p)
  \/ DeleteVectors(p)
  \/ DeleteMeta(p)

\* handlers run concurrently, interleaved at their awaits
Next == \E p \in Procs : Start(p, ConcTriples) \/ Step(p) \/ IngestEmbed(p)

Spec == Init /\ [][Next]_vars

\* one handler at a time
SeqNext ==
  \E p \in Procs :
    \/ InFlight = {} /\ Start(p, Triples)
    \/ Step(p)
    \/ IngestEmbed(p)

SeqSpec == Init /\ [][SeqNext]_vars

\* one handler at a time, searches included
ReadNext ==
  \E p \in Procs :
    \/ InFlight = {} /\ (Start(p, ReadTriples) \/ StartRead(p, ReadTriples))
    \/ Step(p)
    \/ IngestEmbed(p)
    \/ SearchSimilarDocuments(p)

ReadSpec == Init /\ [][ReadNext]_vars

\* one handler at a time, with getEmbeddings as LiteLLMClient implements it
FanNext ==
  \E p \in Procs :
    \/ InFlight = {} /\ Start(p, ConcTriples)
    \/ Step(p)
    \/ FanDispatch(p)
    \/ \E i \in 1..MaxChunks : FanResolve(p, i)
    \/ \E i \in 1..MaxChunks : FanReject(p, i)
    \/ FanJoin(p)

FanSpec == Init /\ [][FanNext]_vars

(* --------------------- point ids of the chunks ------------------------- *)
\* document ids of the callers, and chunk indexes of documents of up to
\* three chunks and of about a thousand chunks (the fallback chunker cuts a
\* 10mb body into chunks of about 2000 characters)
DocumentIds == {1, 2, 3}
ChunkIndexes == {0, 1, 2, 998, 999, 1000, 1001}
\* number of chunks whose ids are compared
MaxAssigned == 2

\* one element of semanticChunks.map((chunkContent, index) => ({ id: ... }))
AssignPointId(documentId, index) ==
  /\ Len(calc) < MaxAssigned
  /\ calc' = Append(calc, [documentId |-> documentId, chunkIndex |-> index,
                           id |-> PointId(documentId, index)])
  /\ UNCHANGED storeVars

IdNext == \E d \in DocumentIds, i \in ChunkIndexes : AssignPointId(d, i)

IdSpec == Init /\ [][IdNext]_vars

(* --------------------- collection names -------------------------------- *)
\* characters of an embedding model identity: a letter, the separators of
\* provider and tag ("openai/bge-m3:latest"), and the underscore
ModelChars == {"a", "/", ":", "_"}
\* longest model identity, and number of services whose names are compared
MaxModelLen == 2
MaxServices == 2

ModelNames == UNION {[1..n -> ModelChars] : n \in 1..MaxModelLen}

\* [a-zA-Z0-9_-]
NameChar(c) == c \in {"a", "_", "-"}

\* DEFAULT_EMBEDDING_MODEL.replace(/[^a-zA-Z0-9_-]/g, "_")
SanitizeModel(model) ==
  [i \in 1..Len(model) |-> IF NameChar(model[i]) THEN model[i] ELSE "_"]

\* `${collectionName}_${embeddingModel}`
CollectionName(collectionName, model) ==
  collectionName \o <<"_">> \o SanitizeModel(model)

\* QDRANT_COLLECTION_NAME || "documents"
DefaultCollection == <<"documents">>

\* new QdrantService(defaultCollection) while `model` is configured
NewQdrantService(model) ==
  /\ Len(calc) < MaxServices
  /\ calc' = Append(calc, [model |-> model,
                           collectionName |-> CollectionName(DefaultCollection, model)])
  /\ UNCHANGED storeVars

NameNext == \E m \in ModelNames : NewQdrantService(m)

NameSpec == Init /\ [][NameNext]_vars

(* --------------------- API key middleware ------------------------------ *)
\* header values are strings over two characters and the substring "Bearer ";
\* the empty string stands for a header that is not sent
HeaderAtoms == {"Bearer ", "s", "t"}
MaxHeaderLen == 3
HeaderValues == UNION {[1..n -> HeaderAtoms] : n \in 0..MaxHeaderLen}
\* x-api-key values: not sent, one character, the key, another key
ApiKeyHeaders == {<<>>, <<"s">>, <<"s", "t">>, <<"t", "s">>}
\* API_KEY of the configuration, which getConfig requires to be set
API_KEY == <<"s", "t">>
RequestPaths == {"/", "/docs", "/docs/json", "/v1/retrieval/search",
                 "/v1/documents", "/v1/documents/1"}
Unauthorized == 401

\* req.path === "/" || req.path.startsWith("/docs")
SkipsAuth(path) == path \in {"/", "/docs", "/docs/json"}

\* String.prototype.replace(pattern, "") with a string pattern: the first
\* occurrence is removed
ReplaceFirst(s, atom) ==
  IF \E i \in 1..Len(s) : s[i] = atom
  THEN LET i == CHOOSE i \in 1..Len(s) :
                  s[i] = atom /\ \A j \in 1..(i - 1) : s[j] # atom
       IN SubSeq(s, 1, i - 1) \o SubSeq(s, i + 1, Len(s))
  ELSE s

\* req.header("x-api-key") || req.header("authorization")?.replace("Bearer ", "")
ExtractApiKey(req) ==
  IF req.xApiKey # <<>> THEN req.xApiKey
  ELSE ReplaceFirst(req.authorization, "Bearer ")

Requests ==
  [path : RequestPaths, xApiKey : ApiKeyHeaders, authorization : HeaderValues]

\* the API key authentication middleware: 401, or next()
AuthMiddleware ==
  /\ calc.stage = "received"
  /\ LET apiKey == ExtractApiKey(calc.req)
     IN IF SkipsAuth(calc.req.path)
        THEN calc' = [calc EXCEPT !.stage = "handler"]
        ELSE IF apiKey = <<>>
        THEN calc' = [calc EXCEPT !.stage = "rejected", !.status = Unauthorized,
                                  !.message = "API key is required"]
        ELSE IF API_KEY # <<>> /\ apiKey # API_KEY
        THEN calc' = [calc EXCEPT !.stage = "rejected", !.status = Unauthorized,
                                  !.message = "Invalid API key"]
        ELSE calc' = [calc EXCEPT !.stage = "handler"]
  /\ UNCHANGED storeVars

GateInit ==
  /\ StoresInit
  /\ calc \in [req : Requests, stage : {"received"}, status : {0}, message : {""}]

GateNext == AuthMiddleware

GateSpec == GateInit /\ [][GateNext]_vars

(* --------------------- semantic chunking: threshold -------------------- *)
\* distances are counted in thousandths, percentiles in percent; a threshold
\* is counted in hundredths of a thousandth, so that the interpolation is exact
PercentScale == 100
\* cosine distances 0.1 .. 0.5
DistanceValues == {100, 200, 300, 400, 500}
\* longest list of distances
MaxDistances == 5
\* percentileThreshold values: the ends, the default 90, and some between
Percentiles == {0, 10, 25, 50, 75, 90, 99, 100}

\* a quantile whose interpolation weights are interchanged
quantile_SwappedWeights(sortedArray, q) ==
  LET index == (Len(sortedArray) - 1) * q
      lower == index \div PercentScale
      upper == (index + PercentScale - 1) \div PercentScale
      weight == index % PercentScale
  IN IF upper >= Len(sortedArray)
     THEN sortedArray[Len(sortedArray)] * PercentScale
     ELSE sortedArray[lower + 1] * weight
            + sortedArray[upper + 1] * (PercentScale - weight)

\* quantile(sortedArray, q) with q = percentileThreshold / 100; index, lower,
\* upper and weight as in the code, index and weight counted in hundredths;
\* sortedArray[k] of the code is sortedArray[k + 1] here
quantile(sortedArray, q) ==
  LET index == (Len(sortedArray) - 1) * q
      lower == index \div PercentScale
      upper == (index + PercentScale - 1) \div PercentScale
      weight == index % PercentScale
  IN IF upper >= Len(sortedArray)
     THEN sortedArray[Len(sortedArray)] * PercentScale
     ELSE sortedArray[lower + 1] * (PercentScale - weight)
            + sortedArray[upper + 1] * weight

SortedLists ==
  UNION {{s \in [1..n -> DistanceValues] :
            \A i \in 1..n, j \in 1..n : i < j => s[i] <= s[j]} : n \in 1..MaxDistances}

QuantileInit ==
  /\ StoresInit
  /\ calc \in [sorted : SortedLists, p : Percentiles, stage : {"input"},
               threshold : {Absent}]

\* const breakpointDistanceThreshold = this.quantile(sortedDistances, quantileThreshold)
ApplyQuantile ==
  /\ calc.stage = "input"
  /\ calc' = [calc EXCEPT !.stage = "done",
                          !.threshold = quantile(calc.sorted, calc.p)]
  /\ UNCHANGED storeVars

QuantileNext == ApplyQuantile

QuantileSpec == QuantileInit /\ [][QuantileNext]_vars

(* --------------------- semantic chunking: boundaries ------------------- *)
\* distance_to_next of the sentences 0 .. n - 2 of a text of n >= 3
\* sentences, every sentence having its embedding
DistanceLists == UNION {[1..n -> DistanceValues] : n \in 2..MaxDistances}

\* [...distances].sort((a, b) => a - b)
SortDistances(distances) == SortSeq(distances, LAMBDA a, b : a < b)

\* a comparison that also flags a distance equal to the threshold
SignificantShiftIndices_Inclusive(distances, threshold) ==
  SelectSeq([i \in 1..Len(distances) |-> i - 1],
            LAMBDA index : distances[index + 1] * PercentScale >= threshold)

\* distances.map((distance, index) => distance > threshold ? index : -1)
\*          .filter((index) => index !== -1)
SignificantShiftIndices(distances, threshold) ==
  SelectSeq([i \in 1..Len(distances) |-> i - 1],
            LAMBDA index : distances[index + 1] * PercentScale > threshold)

\* the sentence indexes of sentenceObjectArray.slice(startIdx, breakpoint + 1)
SliceIndexes(startIdx, breakpoint) ==
  [j \in 1..(breakpoint + 1 - startIdx) |-> startIdx + j - 1]

\* a grouping that does not add the last sentence index to the breakpoints
groupSentencesIntoChunks_NoFinalRun(length, shiftIndices) ==
  [k \in 1..Len(shiftIndices) |->
     SliceIndexes(IF k = 1 THEN 0 ELSE shiftIndices[k - 1] + 1, shiftIndices[k])]

\* groupSentencesIntoChunks: each chunk as the indexes of its sentences
groupSentencesIntoChunks(length, shiftIndices) ==
  LET adjustedBreakpoints == Append(shiftIndices, length - 1)
  IN [k \in 1..Len(adjustedBreakpoints) |->
        SliceIndexes(IF k = 1 THEN 0 ELSE adjustedBreakpoints[k - 1] + 1,
                     adjustedBreakpoints[k])]

ShiftInit ==
  /\ StoresInit
  /\ calc \in [distances : DistanceLists, p : Percentiles, stage : {"embedded"},
               threshold : {Absent}, shifts : {<<>>}, groups : {<<>>}]

\* calculateCosineDistancesAndSignificantShifts(sentencesWithEmbeddings, p)
CalculateShifts ==
  /\ calc.stage = "embedded"
  /\ LET threshold == quantile(SortDistances(calc.distances), calc.p)
     IN calc' = [calc EXCEPT !.stage = "shifts",
                             !.threshold = threshold,
                             !.shifts = SignificantShiftIndices(calc.distances,
                                                                threshold)]
  /\ UNCHANGED storeVars

\* groupSentencesIntoChunks(updatedArray, significantShiftIndices)
GroupSentences ==
  /\ calc.stage = "shifts"
  /\ calc' = [calc EXCEPT !.stage = "chunks",
                          !.groups = groupSentencesIntoChunks(
                                       Len(calc.distances) + 1, calc.shifts)]
  /\ UNCHANGED storeVars

ShiftNext == CalculateShifts \/ GroupSentences

ShiftSpec == ShiftInit /\ [][ShiftNext]_vars

(* --------------------- semantic chunking: grouping --------------------- *)
\* largest number of sentences of a text
MaxSentences == 7
SentenceCounts == 1..MaxSentences

\* the lists of shift indexes a text of `length` sentences can have: indexes
\* of transitions, 0 .. length - 2, in ascending order as map and filter
\* leave them
AscendingIndexes(S) ==
  [i \in 1..Cardinality(S) |->
     CHOOSE x \in S : Cardinality({y \in S : y < x}) = i - 1]

ShiftIndexLists(length) == {AscendingIndexes(S) : S \in SUBSET (0..(length - 2))}

GroupInit ==
  /\ StoresInit
  /\ \E length \in SentenceCounts :
       \E shiftIndices \in ShiftIndexLists(length) :
         calc = [length |-> length, shifts |-> shiftIndices, stage |-> "shifts",
                 groups |-> <<>>]

\* groupSentencesIntoChunks(sentenceObjectArray, shiftIndices)
GroupChunks ==
  /\ calc.stage = "shifts"
  /\ calc' = [calc EXCEPT !.stage = "chunks",
                          !.groups = groupSentencesIntoChunks(calc.length,
                                                              calc.shifts)]
  /\ UNCHANGED storeVars

GroupNext == GroupChunks

GroupSpec == GroupInit /\ [][GroupNext]_vars

(* --------------------- fallback chunker -------------------------------- *)
\* a string is a list of runs; a run is n characters of one class: a letter
\* "a" or "b", whitespace " ", sentence-ending punctuation "." (for . ! ?)
maxChunkSize == 2000
Space == [c |-> " ", n |-> 1]
Stop == [c |-> ".", n |-> 1]
Runs == {Space, Stop, [c |-> "a", n |-> 1], [c |-> "a", n |-> 1000],
         [c |-> "b", n |-> 1000], [c |-> "b", n |-> 2001]}
\* largest number of runs of a content
MaxRuns == 4
\* the contents the ingest route lets through: non-empty strings
ContentStrings == UNION {[1..k -> Runs] : k \in 1..MaxRuns}

\* s.length
RECURSIVE StrLen(_)
StrLen(s) == IF s = <<>> THEN 0 ELSE Head(s).n + StrLen(Tail(s))

RECURSIVE TrimStart(_)
TrimStart(s) ==
  IF s # <<>> /\ Head(s).c = " " THEN TrimStart(Tail(s)) ELSE s

RECURSIVE TrimEnd(_)
TrimEnd(s) ==
  IF s # <<>> /\ s[Len(s)].c = " " THEN TrimEnd(SubSeq(s, 1, Len(s) - 1)) ELSE s

\* s.trim()
Trim(s) == TrimEnd(TrimStart(s))

\* s.split(/[.!?]+/): the pieces between the maximal runs of punctuation,
\* the empty pieces before a leading and after a trailing run included
RECURSIVE SplitOnStops(_)
SplitOnStops(s) ==
  IF \A i \in 1..Len(s) : s[i].c # "."
  THEN <<s>>
  ELSE LET i == CHOOSE i \in 1..Len(s) :
                  s[i].c = "." /\ \A j \in 1..(i - 1) : s[j].c # "."
           j == CHOOSE j \in i..Len(s) :
                  /\ \A k \in i..j : s[k].c = "."
                  /\ j < Len(s) => s[j + 1].c # "."
       IN <<SubSeq(s, 1, i - 1)>> \o SplitOnStops(SubSeq(s, j + 1, Len(s)))

\* content.split(/[.!?]+/).filter((s) => s.trim().length > 0)
FallbackSentences(content) ==
  SelectSeq(SplitOnStops(content), LAMBDA s : StrLen(Trim(s)) > 0)

\* the loop over the sentences and the push after it
RECURSIVE Accumulate(_, _, _)
Accumulate(sentences, currentChunk, chunkList) ==
  IF sentences = <<>>
  THEN IF StrLen(Trim(currentChunk)) > 0
       THEN Append(chunkList, Trim(currentChunk))
       ELSE chunkList
  ELSE LET sentence == Trim(Head(sentences))
           potentialChunk ==
             currentChunk \o (IF currentChunk # <<>> THEN <<Space>> ELSE <<>>)
                          \o sentence
       IN IF StrLen(potentialChunk) > maxChunkSize /\ StrLen(currentChunk) > 0
          THEN Accumulate(Tail(sentences), sentence,
                          Append(chunkList, Trim(currentChunk)))
          ELSE Accumulate(Tail(sentences), potentialChunk, chunkList)

fallbackToSimpleChunking(content) ==
  Accumulate(FallbackSentences(content), <<>>, <<>>)

FallbackInit ==
  /\ StoresInit
  /\ calc \in [content : ContentStrings, stage : {"failed"}, chunks : {<<>>}]

\* return this.fallbackToSimpleChunking(content)
FallbackChunk ==
  /\ calc.stage = "failed"
  /\ calc' = [calc EXCEPT !.stage = "returned",
                          !.chunks = fallbackToSimpleChunking(calc.content)]
  /\ UNCHANGED storeVars

FallbackNext == FallbackChunk

FallbackSpec == FallbackInit /\ [][FallbackNext]_vars

(* --------------------- performSemanticChunking ------------------------- *)
\* percentileThreshold of processDocument's call
percentileThreshold == 90
\* the sentences a text is made of: "a." and "b."
SentenceTexts == {<<[c |-> "a", n |-> 1], Stop>>, <<[c |-> "b", n |-> 1], Stop>>}
SentenceLists == UNION {[1..n -> SentenceTexts] : n \in SentenceCounts}
\* distances between neighbouring windows: 0.1 and 0.3
WindowDistances == {100, 300}

\* list.join(" ")
RECURSIVE JoinSpace(_)
JoinSpace(list) ==
  IF list = <<>> THEN <<>>
  ELSE IF Len(list) = 1 THEN list[1]
  ELSE list[1] \o <<Space>> \o JoinSpace(Tail(list))

\* the text whose sentences these are; a blank text when there is none
TextOf(sentences) ==
  IF sentences = <<>> THEN <<Space>> ELSE JoinSpace(sentences)

\* a bypass for texts of one sentence only
FewSentences_OnlyOne(n) == n <= 1

\* sentences.length <= 2
FewSentences(n) == n <= 2

\* group.map((item) => item.sentence).join(" ") of every group
ChunkTexts(sentences, groups) ==
  [k \in 1..Len(groups) |->
     JoinSpace([j \in 1..Len(groups[k]) |-> sentences[groups[k][j] + 1]])]

PerformInit ==
  /\ StoresInit
  /\ \E sentences \in SentenceLists \cup {<<>>} :
       calc = [content |-> TextOf(sentences), sentences |-> sentences,
               stage |-> "called", requested |-> 0, detected |-> FALSE,
               path |-> "", chunks |-> <<>>]

\* performSemanticChunking from its call to its await of the window
\* embeddings: input check, splitToSentences (the tokenizer returns the
\* sentences of the text), the few-sentence return, structureSentences
SplitAndStructure ==
  /\ calc.stage = "called"
  /\ IF StrLen(Trim(calc.content)) = 0
     THEN calc' = [calc EXCEPT !.stage = "returned", !.path = "fallback",
                     !.chunks = fallbackToSimpleChunking(calc.content)]
     ELSE IF FewSentences(Len(calc.sentences))
     THEN calc' = [calc EXCEPT !.stage = "returned", !.path = "bypass",
                     !.chunks = calc.sentences]
     ELSE calc' = [calc EXCEPT !.stage = "embedding",
                     !.requested = Len(calc.sentences)]
  /\ UNCHANGED storeVars

\* the window embeddings arrive: boundary detection and grouping
DetectAndGroup ==
  /\ calc.stage = "embedding"
  /\ \E distances \in [1..(Len(calc.sentences) - 1) -> WindowDistances] :
       LET threshold == quantile(SortDistances(distances), percentileThreshold)
           shifts == SignificantShiftIndices(distances, threshold)
       IN calc' = [calc EXCEPT !.stage = "returned", !.path = "semantic",
                     !.detected = TRUE,
                     !.chunks = ChunkTexts(calc.sentences,
                                  groupSentencesIntoChunks(Len(calc.sentences),
                                                           shifts))]
  /\ UNCHANGED storeVars

\* getEmbeddings throws: the catch block answers with the fallback chunker
EmbeddingsFail ==
  /\ calc.stage = "embedding"
  /\ calc' = [calc EXCEPT !.stage = "returned", !.path = "fallback",
                !.chunks = fallbackToSimpleChunking(calc.content)]
  /\ UNCHANGED storeVars

PerformNext == SplitAndStructure \/ DetectAndGroup \/ EmbeddingsFail

PerformSpec == PerformInit /\ [][PerformNext]_vars

(* --------------------- semantic chunking: rounding --------------------- *)
\* The arithmetic of quantile is that of doubles: every product and every
\* sum is rounded to the nearest number with a significand of 53 bits, ties
\* to the even significand. Here a significand has 4 bits (Half <= m < Full)
\* and a number is counted in units of 1 / Fine, so that every rounded
\* product of a distance and a weight is a whole number of units.
Full == 16
Half == 8
Fine == 256
\* the exponents a rounded result can have, as powers of two in units
Steps == {1, 2, 4, 8, 16, 32, 64, 128, 256, 512}
\* distances 12, 13, 14 and 15 (times a power of two, as any double is)
RoundedDistances == {12 * Fine, 13 * Fine, 14 * Fine, 15 * Fine}
\* percentileThreshold values below 100
PercentilesBelow100 == {50, 75, 80, 90}

\* num / den rounded to the nearest integer, ties to the even one
RoundHalfEven(num, den) ==
  LET quotient == num \div den
      rest == num % den
  IN IF 2 * rest > den \/ (2 * rest = den /\ quotient % 2 = 1)
     THEN quotient + 1
     ELSE quotient

\* the representable number nearest to num / den
Rounded(num, den) ==
  IF num < Half * den
  THEN RoundHalfEven(num, den)
  ELSE LET step == CHOOSE s \in Steps :
                     Half * den * s <= num /\ num < Full * den * s
       IN RoundHalfEven(num, den * step) * step

\* quantile(sortedArray, q) in rounded arithmetic; the result is counted in
\* hundredths of a unit, as quantile's is
quantileRounded(sortedArray, q) ==
  LET index == (Len(sortedArray) - 1) * q
      lower == index \div PercentScale
      upper == (index + PercentScale - 1) \div PercentScale
      weight == index % PercentScale
  IN IF upper >= Len(sortedArray)
     THEN sortedArray[Len(sortedArray)] * PercentScale
     ELSE Rounded(Rounded(sortedArray[lower + 1] * (PercentScale - weight),
                          PercentScale)
                    + Rounded(sortedArray[upper + 1] * weight, PercentScale),
                  1) * PercentScale

RoundedInit ==
  /\ StoresInit
  /\ calc \in [distances : UNION {[1..n -> RoundedDistances] : n \in 2..MaxDistances},
               p : PercentilesBelow100, stage : {"embedded"},
               threshold : {Absent}, shifts : {<<>>}, groups : {<<>>}]

\* calculateCosineDistancesAndSignificantShifts in rounded arithmetic
CalculateShiftsRounded ==
  /\ calc.stage = "embedded"
  /\ LET threshold == quantileRounded(SortDistances(calc.distances), calc.p)
     IN calc' = [calc EXCEPT !.stage = "shifts",
                             !.threshold = threshold,
                             !.shifts = SignificantShiftIndices(calc.distances,
                                                                threshold)]
  /\ UNCHANGED storeVars

RoundedNext == CalculateShiftsRounded \/ GroupSentences

RoundedSpec == RoundedInit /\ [][RoundedNext]_vars

(* --------------------- collection creation on first use ---------------- *)
\* number of storeDocumentVectors calls in flight
MaxCallers == 3
Callers == 1..MaxCallers

\* the collection of the service is absent; no call has started
CollectionInit ==
  /\ StoresInit
  /\ calc = [exists |-> FALSE, issued |-> 0,
             at |-> [c \in Callers |-> "idle"],
             err |-> [c \in Callers |-> "none"]]

\* storeDocumentVectors is called: await this.initializeCollection()
CallStore(c) ==
  /\ calc.at[c] = "idle"
  /\ calc' = [calc EXCEPT !.at[c] = "getCollections"]
  /\ UNCHANGED storeVars

\* const collections = await qdrantCient.getCollections(); collectionExists
GetCollections(c) ==
  /\ calc.at[c] = "getCollections"
  /\ calc' = [calc EXCEPT !.at[c] = IF calc.exists THEN "upsert"
                                    ELSE "createCollection"]
  /\ UNCHANGED storeVars

\* await qdrantCient.createCollection(this.collectionName, ...): the store
\* refuses to create a collection that exists; initializeCollection and
\* storeDocumentVectors rethrow
CreateCollection(c) ==
  /\ calc.at[c] = "createCollection"
  /\ IF calc.exists
     THEN calc' = [calc EXCEPT !.issued = @ + 1, !.at[c] = "failed",
                               !.err[c] = "already exists"]
     ELSE calc' = [calc EXCEPT !.issued = @ + 1, !.exists = TRUE,
                               !.at[c] = "upsert"]
  /\ UNCHANGED storeVars

\* await qdrantCient.upsert(this.collectionName, { points })
UpsertPoints(c) ==
  /\ calc.at[c] = "upsert"
  /\ \/ calc' = [calc EXCEPT !.at[c] = "stored"]
     \/ calc' = [calc EXCEPT !.at[c] = "failed", !.err[c] = "upsert"]
  /\ UNCHANGED storeVars

CollectionNext ==
  \E c \in Callers :
    CallStore(c) \/ GetCollections(c) \/ CreateCollection(c) \/ UpsertPoints(c)

CollectionSpec == CollectionInit /\ [][CollectionNext]_vars

(* ------------------------------ claims -------------------------------- *)
\* invocation p returns or throws in this step
Returns(p) == pc[p] # "idle" /\ pc'[p] = "idle"

\* the points a run writes for its chunks
RunPoints(p) == BuildPoints(chunks[p], embs[p])

SameKey(e, o) ==
  e.documentId = o.documentId /\ e.knowledgeBaseId = o.knowledgeBaseId

\* C1: when an ingest of a key has run to completion and a second ingest of
\* the same key then runs to completion, the VectorStore holds for the key
\* exactly the points of the second run: as many as it has chunks, none
\* left over from the first run.
C1_IdempotentReingest ==
  [][\A p \in Procs :
       (/\ Returns(p)
        /\ op[p].kind = "ingest"
        /\ last'.res = "ok"
        /\ last.kind = "ingest" /\ last.res = "ok" /\ SameKey(last, op[p]))
       => /\ PointsIn(points', op[p].documentId, op[p].knowledgeBaseId)
               = RunPoints(p)
          /\ Cardinality(PointsIn(points', op[p].documentId,
                                  op[p].knowledgeBaseId)) = Len(chunks[p])]_vars

\* C2: when deleteDocument returns true for a key, the VectorStore holds no
\* point of the key and the MetadataStore holds no row of the key.
C2_DeleteCompleteness ==
  [][\A p \in Procs :
       (Returns(p) /\ op[p].kind = "delete" /\ last'.res = "true")
       => /\ PointsIn(points', op[p].documentId, op[p].knowledgeBaseId) = {}
          /\ RowsIn(meta', op[p].documentId, op[p].knowledgeBaseId) = {}]_vars

\* C2 witness: a key was ingested successfully with at least one chunk, the
\* deleteDocument that followed returned true, and nothing of the key is left.
C2_Witness ==
  /\ InFlight = {}
  /\ prev.kind = "ingest" /\ prev.res = "ok" /\ prev.n >= 1
  /\ last.kind = "delete" /\ last.res = "true" /\ SameKey(prev, last)
  /\ PointsIn(points, last.documentId, last.knowledgeBaseId) = {}
  /\ RowsIn(meta, last.documentId, last.knowledgeBaseId) = {}

\* what the stores hold outside one (documentId, knowledgeBaseId) key
PointsOutside(pts, documentId, knowledgeBaseId) ==
  pts \ PointsIn(pts, documentId, knowledgeBaseId)

RowsOutside(m, documentId, knowledgeBaseId) ==
  m \ RowsIn(m, documentId, knowledgeBaseId)

\* C3: no step of an ingest or of a deleteDocument changes a point or a
\* metadata row of another (documentId, knowledgeBaseId) pair.
C3_WriteIsolation ==
  [][\A p \in Procs :
       (pc[p] # "idle" /\ pc'[p] # pc[p] /\ op[p].kind \in {"ingest", "delete"})
       => /\ PointsOutside(points', op[p].documentId, op[p].knowledgeBaseId)
               = PointsOutside(points, op[p].documentId, op[p].knowledgeBaseId)
          /\ RowsOutside(meta', op[p].documentId, op[p].knowledgeBaseId)
               = RowsOutside(meta, op[p].documentId, op[p].knowledgeBaseId)]_vars

\* the stored points a search for (userId, knowledgeBaseId, documentId?) may
\* return
Eligible(o) ==
  {pt \in points :
     /\ pt.userId = o.userId
     /\ pt.knowledgeBaseId = o.knowledgeBaseId
     /\ (o.documentId # NoDoc => pt.documentId = o.documentId)
     /\ Score(o.q, pt.vector) >= o.thr}

ResetRow(o) ==
  [documentId |-> o.documentId, knowledgeBaseId |-> o.knowledgeBaseId,
   userId |-> o.userId, vectorCount |-> 0, isVectorized |-> FALSE]

\* C5: in every ingest run, the reset step leaves the key's row at
\* isVectorized = false, vectorCount = 0; the run deletes or writes points
\* only after its reset; and a step of the run turns the key's row to
\* isVectorized = true only as its marking step, after the upsert of the
\* same run has completed, with the run's chunk count as vectorCount.
C5_LifecycleOrder ==
  [][\A p \in Procs :
       (pc[p] # "idle" /\ pc'[p] # pc[p] /\ op[p].kind = "ingest")
       => LET d == op[p].documentId
              k == op[p].knowledgeBaseId
          IN /\ "reset" \in did'[p] \ did[p]
                  => RowsIn(meta', d, k) = {ResetRow(op[p])}
             /\ points' # points => "reset" \in did[p]
             /\ \A r \in RowsIn(meta', d, k) \ RowsIn(meta, d, k) :
                  r.isVectorized
                    => /\ pc[p] = "mark"
                       /\ "store" \in did[p]
                       /\ r.vectorCount = Len(chunks[p])]_vars

\* C5 witness: a run has upserted its points and has not marked yet: the
\* points are stored and the key's row still says isVectorized = false.
C5_Witness ==
  \E p \in Procs :
    /\ pc[p] = "mark"
    /\ "store" \in did[p]
    /\ Len(chunks[p]) >= 1
    /\ RunPoints(p) \subseteq points
    /\ RowsIn(meta, op[p].documentId, op[p].knowledgeBaseId) = {ResetRow(op[p])}

\* C6: when an ingest fails after its metadata upsert, the key's row is left
\* with isVectorized = false, and the failed run starts no new attempt.
C6_FailureLeavesNotVectorized ==
  [][\A p \in Procs :
       (/\ Returns(p)
        /\ op[p].kind = "ingest"
        /\ "reset" \in did[p]
        /\ last'.res = "error")
       => /\ RowsIn(meta', op[p].documentId, op[p].knowledgeBaseId) # {}
          /\ \A r \in RowsIn(meta', op[p].documentId, op[p].knowledgeBaseId) :
               ~r.isVectorized
          /\ nops' = nops
          /\ InFlight' = InFlight \ {p}]_vars

\* C6 witness: the key had been vectorized by an earlier ingest, the next
\* ingest of the key failed, and the row says isVectorized = false.
C6_Witness ==
  /\ InFlight = {}
  /\ prev.kind = "ingest" /\ prev.res = "ok" /\ prev.n >= 1
  /\ last.kind = "ingest" /\ last.res = "error" /\ SameKey(prev, last)
  /\ last.err.kind \in {"embedding", "mismatch", "invalid", "store"}
  /\ \E r \in RowsIn(meta, last.documentId, last.knowledgeBaseId) :
       ~r.isVectorized

\* C7: no lock serializes the ingests of one key: while an ingest of a key
\* is in flight, a second ingest of the same key can start, and an ingest in
\* flight can take its next step whatever the other invocation is doing.
C7_IngestsNotSerialized ==
  \A p \in Procs, q \in Procs :
    (p # q /\ pc[p] # "idle" /\ op[p].kind = "ingest")
    => /\ (pc[q] = "idle" /\ Budget)
            => ENABLED StartIngest(q, <<op[p].userId, op[p].knowledgeBaseId,
                                        op[p].documentId>>, op[p].content)
       /\ ENABLED (Step(p) \/ IngestEmbed(p))

\* C7 witness: two ingests of one key have both returned successfully, and
\* the key holds a point of each run: the run that returned last stored its
\* points first, and the other run overwrote one of them; the row's
\* vectorCount is the chunk count of the run that returned last.
C7_Witness ==
  /\ InFlight = {}
  /\ prev.kind = "ingest" /\ prev.res = "ok"
  /\ last.kind = "ingest" /\ last.res = "ok" /\ SameKey(prev, last)
  /\ prev.n < last.n
  /\ \E pt \in PointsIn(points, last.documentId, last.knowledgeBaseId) :
       pt.totalChunks = prev.n
  /\ \E pt \in PointsIn(points, last.documentId, last.knowledgeBaseId) :
       pt.totalChunks = last.n
  /\ \A r \in RowsIn(meta, last.documentId, last.knowledgeBaseId) :
       r.isVectorized /\ r.vectorCount = last.n

\* C8: when an ingest has stopped between its upsert and its marking, and a
\* later ingest of the same key completes successfully, the key's row says
\* isVectorized = true, the key holds exactly the points of the new run,
\* and vectorCount is their number.
C8_CrashRecovery ==
  [][\A p \in Procs :
       (/\ Returns(p)
        /\ op[p].kind = "ingest"
        /\ last'.res = "ok"
        /\ last.kind = "ingest" /\ last.res = "crashed" /\ SameKey(last, op[p]))
       => LET pts == PointsIn(points', op[p].documentId, op[p].knowledgeBaseId)
              rows == RowsIn(meta', op[p].documentId, op[p].knowledgeBaseId)
          IN /\ pts = RunPoints(p)
             /\ rows # {}
             /\ \A r \in rows :
                  r.isVectorized /\ r.vectorCount = Cardinality(pts)]_vars

\* the counts an embedding collaborator may return for the chunks
ReturnedCounts(cs) == {Len(es) : es \in EmbeddingReturns(cs)}

\* a failure of the validation of the returned embeddings
ValidationFailure(p) ==
  /\ Returns(p)
  /\ op[p].kind = "ingest"
  /\ last'.res = "error"
  /\ last'.err.kind \in {"mismatch", "invalid"}

\* such a failure upserts nothing and leaves the row not vectorized
NoUpsertNotVectorized(p) ==
  /\ "store" \notin did[p]
  /\ points' = points
  /\ RowsIn(meta', op[p].documentId, op[p].knowledgeBaseId) = {ResetRow(op[p])}

C10_EmbeddingAlignment ==
  /\ \A p \in Procs :
       /\ pc[p] = "embedWait" => Len(fan[p]) = Len(chunks[p])
       /\ pc[p] \in {"store", "mark"}
            => /\ Len(embs[p]) = Len(chunks[p])
               /\ \A i \in 1..Len(chunks[p]) :
                    embs[p][i] = Embedding(chunks[p][i].content)
  /\ \A pt \in points : pt.vector = Embedding(pt.content).v

\* C10 witness: the request for the second text completed before the
\* request for the first, and the run has stored its points.
C10_Witness ==
  \E p \in Procs :
    /\ pc[p] = "mark"
    /\ order[p] = <<2, 1>>
    /\ RunPoints(p) \subseteq points

\* C11: deleteDocument never throws: it returns true or false; true only
\* when the vector delete and then the metadata delete both completed
\* without error, false exactly when one of them raised an error.
C11_DeleteNeverThrows ==
  [][\A p \in Procs :
       (Returns(p) /\ op[p].kind = "delete")
       => /\ last'.res \in {"true", "false"}
          /\ last'.res = "true"
               => /\ "delete" \in did[p]
                  /\ pc[p] = "delMeta"
                  /\ meta' = deleteDocumentVectorMetadata(meta, op[p].documentId)
                  /\ last'.err = NoErr
          /\ last'.res = "false" <=> last'.err \in {StoreError, MetadataError}
          /\ last'.err = StoreError => pc[p] = "delVectors" /\ points' = points
          /\ last'.err = MetadataError => pc[p] = "delMeta" /\ meta' = meta]_vars

\* C11 witness: the vector delete completed, the metadata delete raised an
\* error, and deleteDocument returned false.
C11_Witness ==
  /\ last.kind = "delete"
  /\ last.res = "false"
  /\ last.err = MetadataError

\* the step of an ingest at which each kind of error is raised
RaisedAt(kind) ==
  CASE kind = "metadata" -> {"reset", "mark"}
    [] kind = "embedding" -> {"embed", "embedWait"}
    [] kind = "mismatch" -> {"embed", "embedWait"}
    [] kind = "invalid" -> {"embed", "embedWait"}
    [] kind = "store" -> {"store"}
    [] OTHER -> {}

\* C12: the chunking step never ends an ingest, whatever fails inside
\* semantic chunking: the run goes on to the embedding of its chunks; every
\* error an ingest ends with comes from the metadata upsert, the embedding
\* of the chunk texts, the validation, the vector upsert or the marking,
\* and reaches the caller wrapped, the run ending at that step.
C12_ErrorPropagation ==
  [][\A p \in Procs :
       (pc[p] # "idle" /\ pc'[p] # pc[p] /\ op[p].kind = "ingest")
       => /\ pc[p] = "chunk" => pc'[p] = "embed" /\ "chunk" \in did'[p]
          /\ (Returns(p) /\ last'.res = "error")
               => /\ last'.err.wrapped
                  /\ pc[p] \in RaisedAt(last'.err.kind)
          /\ (Returns(p) /\ last'.res # "error") => last'.err = NoErr]_vars

\* C12 witness: semantic chunking failed, the fallback chunker supplied the
\* chunks, and the run has upserted their points.
C12_Witness ==
  \E p \in Procs :
    /\ pc[p] = "mark"
    /\ "fallback" \in did[p]
    /\ Len(chunks[p]) >= 1
    /\ RunPoints(p) \subseteq points

\* C13: no step of a deleteDocument requested with one userId changes a
\* point or a metadata row stored under another userId.
C13_DeleteScopedToUser ==
  [][\A p \in Procs :
       (pc[p] # "idle" /\ pc'[p] # pc[p] /\ op[p].kind = "delete")
       => /\ {pt \in points' : pt.userId # op[p].userId}
               = {pt \in points : pt.userId # op[p].userId}
          /\ {r \in meta' : r.userId # op[p].userId}
               = {r \in meta : r.userId # op[p].userId}]_vars

\* C14: two chunks that differ in documentId or in chunkIndex never receive
\* the same point id.
C14_PointIdUnique ==
  \A a \in 1..Len(calc), b \in 1..Len(calc) :
    (calc[a].documentId # calc[b].documentId
       \/ calc[a].chunkIndex # calc[b].chunkIndex)
    => calc[a].id # calc[b].id

C16_CollectionPerModel ==
  \A a \in 1..Len(calc), b \in 1..Len(calc) :
    calc[a].model # calc[b].model
    => calc[a].collectionName # calc[b].collectionName

\* C17: the delete of the existing vectors never ends an ingest: when it
\* succeeds the points of the key are removed, when it fails nothing
\* changes, and either way the run goes on to chunking with its metadata
\* row as the reset left it.
C17_BestEffortDelete ==
  [][\A p \in Procs :
       (pc[p] = "deleteOld" /\ pc'[p] # pc[p])
       => /\ pc'[p] = "chunk"
          /\ meta' = meta
          /\ \/ /\ "delete" \in did'[p]
                /\ points' = QdrantDelete(points,
                               DeleteFilter(op[p].documentId, op[p].knowledgeBaseId))
             \/ /\ "delete" \notin did'[p]
                /\ points' = points]_vars

\* C17 witness: an ingest whose delete of the existing vectors failed has
\* returned successfully: the key still holds a point of the earlier run.
C17_Witness ==
  /\ InFlight = {}
  /\ prev.kind = "ingest" /\ prev.res = "ok"
  /\ last.kind = "ingest" /\ last.res = "ok" /\ SameKey(prev, last)
  /\ last.n >= 1
  /\ \E pt \in PointsIn(points, last.documentId, last.knowledgeBaseId) :
       pt.totalChunks = prev.n /\ prev.n # last.n

\* the API key a request carries: the x-api-key header, or else the
\* Authorization header, without its "Bearer " prefix when it has one; the
\* empty string when neither is sent
CarriedKey(req) ==
  IF req.xApiKey # <<>> THEN req.xApiKey
  ELSE IF req.authorization # <<>> /\ Head(req.authorization) = "Bearer "
  THEN Tail(req.authorization)
  ELSE req.authorization

\* C18: a request to a path other than "/" and "/docs..." that carries no
\* API key, or a key different from the configured one, is answered 401 and
\* reaches no handler, so nothing is embedded, read, written or deleted.
C18_ApiKeyGate ==
  (/\ calc.stage # "received"
   /\ ~SkipsAuth(calc.req.path)
   /\ CarriedKey(calc.req) # API_KEY)
  => /\ calc.stage = "rejected"
     /\ calc.status = Unauthorized
     /\ points = {} /\ meta = {} /\ InFlight = {}

\* floor and ceiling of a / b for a >= 0, b > 0
FloorOf(a, b) == CHOOSE k \in 0..a : k * b <= a /\ a < (k + 1) * b
CeilOf(a, b) == CHOOSE k \in 0..a : (k - 1) * b < a /\ a <= k * b

\* C19: for a non-empty sorted list d[0..n-1] and 0 <= p <= 100 the
\* threshold is d[floor(idx)] * (1 - frac) + d[ceil(idx)] * frac with
\* idx = (p / 100) * (n - 1) and frac its fractional part; for
\* [0.1, 0.2, 0.3, 0.4, 0.5] and p = 90 it is 0.46.
C19_QuantileThreshold ==
  calc.stage = "done"
  => LET d == calc.sorted
         idx == calc.p * (Len(d) - 1)
         lo == FloorOf(idx, PercentScale)
         hi == CeilOf(idx, PercentScale)
         frac == idx - lo * PercentScale
     IN /\ calc.threshold = d[lo + 1] * (PercentScale - frac) + d[hi + 1] * frac
        /\ (d = <<100, 200, 300, 400, 500>> /\ calc.p = 90)
             => calc.threshold = 460 * PercentScale

\* C19 witness: the threshold of [0.1, 0.2, 0.3, 0.4, 0.5] at p = 90 has
\* been computed, and it is 0.46.
C19_Witness ==
  /\ calc.stage = "done"
  /\ calc.sorted = <<100, 200, 300, 400, 500>>
  /\ calc.p = 90
  /\ calc.threshold = 46000

\* the indexes a list of shift indexes holds
Flagged(shifts) == {shifts[k] : k \in 1..Len(shifts)}

\* C20: the transition from sentence i to sentence i + 1 is flagged exactly
\* when its distance is strictly greater than the threshold, so not when it
\* equals the threshold; and every flagged index is the index of the last
\* sentence of a chunk.
C20_BoundaryRule ==
  /\ calc.stage \in {"shifts", "chunks"}
       => \A i \in 0..(Len(calc.distances) - 1) :
            i \in Flagged(calc.shifts)
              <=> calc.distances[i + 1] * PercentScale > calc.threshold
  /\ calc.stage = "chunks"
       => \A i \in Flagged(calc.shifts) :
            \E k \in 1..Len(calc.groups) :
              /\ calc.groups[k] # <<>>
              /\ calc.groups[k][Len(calc.groups[k])] = i

\* C20 witness: of the distances 0.1, 0.3, 0.5 at p = 50 the threshold is
\* 0.3; the transition of distance 0.3 is not flagged, the one of distance
\* 0.5 is, and sentence 2 ends a chunk.
C20_Witness ==
  /\ calc.stage = "chunks"
  /\ calc.distances = <<100, 300, 500>>
  /\ calc.threshold = 300 * PercentScale
  /\ calc.shifts = <<2>>
  /\ calc.groups = << <<0, 1, 2>>, <<3>> >>

\* the runs of a grouping laid end to end
RECURSIVE Flatten(_)
Flatten(groups) ==
  IF groups = <<>> THEN <<>> ELSE Head(groups) \o Flatten(Tail(groups))

\* C21: for every number of sentences and every set of boundary indexes the
\* chunks are non-empty runs of consecutive sentences which, laid end to
\* end, are the sentences 0 .. n - 1 in order, each exactly once; there is
\* one chunk more than there are boundaries; the last chunk ends with the
\* last sentence.
C21_GroupingPartition ==
  calc.stage = "chunks"
  => /\ Len(calc.groups) = Len(calc.shifts) + 1
     /\ \A k \in 1..Len(calc.groups) : calc.groups[k] # <<>>
     /\ Flatten(calc.groups) = [i \in 1..calc.length |-> i - 1]
     /\ LET g == calc.groups[Len(calc.groups)]
        IN g[Len(g)] = calc.length - 1

\* C21 witness: five sentences with boundaries after sentences 0 and 2 are
\* grouped into the three chunks 0 | 1 2 | 3 4.
C21_Witness ==
  /\ calc.stage = "chunks"
  /\ calc.length = 5
  /\ calc.shifts = <<0, 2>>
  /\ calc.groups = << <<0>>, <<1, 2>>, <<3, 4>> >>

\* C22: when sentence splitting yields one or two sentences, chunking
\* returns exactly those sentences as its chunks, in order, without having
\* requested a window embedding and without boundary detection; a text of
\* two sentences yields two chunks.
C22_FewSentenceBypass ==
  Len(calc.sentences) \in {1, 2}
  => /\ calc.stage # "embedding"
     /\ calc.requested = 0
     /\ ~calc.detected
     /\ calc.stage = "returned"
          => /\ calc.path = "bypass"
             /\ calc.chunks = calc.sentences
             /\ Len(calc.chunks) = Len(calc.sentences)

\* C22 witness: the text "a. b." has been chunked into "a." and "b.", and
\* no embedding was requested.
C22_Witness ==
  /\ calc.stage = "returned"
  /\ calc.content = <<[c |-> "a", n |-> 1], Stop, Space, [c |-> "b", n |-> 1], Stop>>
  /\ calc.chunks = << <<[c |-> "a", n |-> 1], Stop>>, <<[c |-> "b", n |-> 1], Stop>> >>
  /\ calc.requested = 0

\* C23: for every non-empty content, content made only of whitespace or of
\* sentence-ending punctuation included, the fallback chunker returns at
\* least one chunk.
C23_FallbackTotal ==
  (calc.stage = "returned" /\ StrLen(calc.content) > 0)
  => Len(calc.chunks) >= 1

\* a string with its adjacent runs of one class merged
RECURSIVE Merged(_)
Merged(s) ==
  IF Len(s) < 2 THEN s
  ELSE IF s[1].c = s[2].c
  THEN Merged(<<[c |-> s[1].c, n |-> s[1].n + s[2].n]>> \o SubSeq(s, 3, Len(s)))
  ELSE <<s[1]>> \o Merged(Tail(s))

\* the trimmed non-empty sentences of a content
TrimmedSentences(content) ==
  LET ss == FallbackSentences(content)
  IN [i \in 1..Len(ss) |-> Trim(ss[i])]

\* C24: no chunk the fallback chunker emits is longer than 2000 characters,
\* and the chunks, laid end to end, hold every non-empty sentence of the
\* input exactly once, in the original order.
C24_FallbackCap ==
  calc.stage = "returned"
  => /\ \A k \in 1..Len(calc.chunks) : StrLen(calc.chunks[k]) <= maxChunkSize
     /\ Merged(JoinSpace(calc.chunks))
          = Merged(JoinSpace(TrimmedSentences(calc.content)))

\* C25: whenever no call is in progress, after any sequence of ingest and
\* deleteDocument calls run one at a time in which collaborator calls may
\* have failed, a metadata row with isVectorized = true has exactly
\* vectorCount points stored for its (documentId, knowledgeBaseId).
C25_CrossStoreConsistency ==
  (InFlight = {} /\ last.res # "crashed" /\ prev.res # "crashed")
  => \A r \in meta :
       r.isVectorized
       => Cardinality(PointsIn(points, r.documentId, r.knowledgeBaseId))
            = r.vectorCount

\* the ingest among the two invocations that completed last
IngestOf(a, b) == IF a.kind = "ingest" THEN a ELSE b

\* C26: when an ingest and a deleteDocument of one key are the only calls,
\* run concurrently, and both complete without error (the ingest returns,
\* the delete returns true), the key ends in one of the two serial
\* outcomes: the points of the ingest with a row at isVectorized = true, or
\* no point and no row.
C26_ConcurrentIngestDelete ==
  (/\ InFlight = {}
   /\ nops = 2
   /\ {last.kind, prev.kind} = {"ingest", "delete"}
   /\ {last.res, prev.res} = {"ok", "true"}
   /\ SameKey(last, prev)
   /\ IngestOf(last, prev).n >= 1)
  => LET pts == PointsIn(points, last.documentId, last.knowledgeBaseId)
         rows == RowsIn(meta, last.documentId, last.knowledgeBaseId)
         n == IngestOf(last, prev).n
     IN \/ pts = {} /\ rows = {}
        \/ /\ Cardinality(pts) = n
           /\ rows # {}
           /\ \A r \in rows : r.isVectorized /\ r.vectorCount = n

C28_DeleteIdempotent ==
  [][\A p \in Procs :
       (/\ pc[p] # "idle" /\ pc'[p] # pc[p]
        /\ op[p].kind = "delete"
        /\ PointsIn(points, op[p].documentId, op[p].knowledgeBaseId) = {}
        /\ RowsIn(meta, op[p].documentId, op[p].knowledgeBaseId) = {})
       => /\ points' = points
          /\ meta' = meta
          /\ (Returns(p) /\ last'.err = NoErr) => last'.res = "true"]_vars

\* C29: when storeDocumentVectors calls run concurrently while the
\* collection is absent, createCollection is issued at most once, and no
\* call fails because the collection was created between its check and its
\* create.
C29_CollectionCreationRaceFree ==
  /\ calc.issued <= 1
  /\ \A c \in Callers : calc.err[c] # "already exists"

\* the largest and the smallest of a list of distances
MaxOf(distances) ==
  CHOOSE x \in {distances[i] : i \in 1..Len(distances)} :
    \A i \in 1..Len(distances) : distances[i] <= x

MinOf(distances) ==
  CHOOSE x \in {distances[i] : i \in 1..Len(distances)} :
    \A i \in 1..Len(distances) : distances[i] >= x

\* C30: for three or more sentences, each with its window embedding, and a
\* percentileThreshold below 100: when one transition's distance is
\* strictly greater than every other's, that transition is flagged, so that
\* chunking yields at least two chunks, and no transition of the smallest
\* distance is flagged.
C30_LargestShiftIsBoundary ==
  (/\ calc.stage \in {"shifts", "chunks"}
   /\ calc.p < 100
   /\ \E i \in 1..Len(calc.distances) :
        \A j \in 1..Len(calc.distances) :
          j # i => calc.distances[j] < calc.distances[i])
  => /\ \A i \in 1..Len(calc.distances) :
          /\ calc.distances[i] = MaxOf(calc.distances)
               => i - 1 \in Flagged(calc.shifts)
          /\ calc.distances[i] = MinOf(calc.distances)
               => i - 1 \notin Flagged(calc.shifts)
     /\ calc.stage = "chunks" => Len(calc.groups) >= 2

====
